---- MODULE Spec2Model ----
(***************************************************************************)
(* ascdump: decoder of Vector ASC trace lines (src/src/lib.rs).            *)
(*                                                                         *)
(* A string is a sequence of one-character strings.  CanFrame::from_str is *)
(* the operator from_str; AscParser is the pair (source, cursor), advanced *)
(* by the action Next.                                                     *)
(***************************************************************************)
EXTENDS Integers, Sequences, FiniteSets, TLC

VARIABLES
    line,      \* the &str handed to CanFrame::from_str by a direct caller
    result,    \* what the first call of from_str on line returned
    result2,   \* what a second call of from_str on the same line returned
    source,    \* AscParser.lines: the items Lines<BufReader<R>> will produce
    cursor,    \* number of items of source already taken by lines.next()
    out        \* what the calls of AscParser::next() returned, in call order

vars == <<line, result, result2, source, cursor, out>>

----------------------------------------------------------------------------
(* Bounds of the model. *)

\* longest payload a generated line declares and carries
MaxPayload == 2
\* most items in the source of an AscParser
MaxLines == 3
\* most calls of AscParser::next() on one parser
MaxCalls == 5

----------------------------------------------------------------------------
(* Characters and machine integers. *)

DecDigits == <<"0", "1", "2", "3", "4", "5", "6", "7", "8", "9">>

\* char::to_digit(radix): the digit's value, or -1
to_digit(c, radix) ==
    LET v == CASE c = "0" -> 0 [] c = "1" -> 1 [] c = "2" -> 2 [] c = "3" -> 3
               [] c = "4" -> 4 [] c = "5" -> 5 [] c = "6" -> 6 [] c = "7" -> 7
               [] c = "8" -> 8 [] c = "9" -> 9
               [] c \in {"a", "A"} -> 10 [] c \in {"b", "B"} -> 11
               [] c \in {"c", "C"} -> 12 [] c \in {"d", "D"} -> 13
               [] c \in {"e", "E"} -> 14 [] c \in {"f", "F"} -> 15
               [] OTHER -> -1
    IN  IF v < radix THEN v ELSE -1

\* char::is_whitespace, on the characters of the model's alphabet
is_whitespace(c) == c \in {" ", "\t"}

\* An unsigned integer of `bits` bits is a little-endian sequence of 16-bit
\* limbs, so that u32 and usize keep their width.
LimbBase == 2 ^ 16
\* widths of u8 (bus_id, payload bytes), u32 (id) and usize (length; a
\* 64-bit target)
U8Bits == 8
U32Bits == 32
UsizeBits == 64

NLimbs(bits) == (bits + 15) \div 16
TopBound(bits) == 2 ^ (bits - 16 * (NLimbs(bits) - 1))

\* the integer n (0 <= n < 2^16) as an unsigned integer of `bits` bits
UInt(n, bits) == [i \in 1..NLimbs(bits) |-> IF i = 1 THEN n ELSE 0]
\* the integer hi * 2^16 + lo as a u32
U32(hi, lo) == <<lo, hi>>

RECURSIVE MulAddFrom(_, _, _, _)
\* limbs i.. of v * radix + carry, followed by the carry out
MulAddFrom(v, i, radix, carry) ==
    IF i > Len(v) THEN <<carry>>
    ELSE LET t == v[i] * radix + carry
         IN  <<t % LimbBase>> \o MulAddFrom(v, i + 1, radix, t \div LimbBase)

\* checked_mul(radix) then checked_add(d): the new value, or overflow
checked_mul_add(v, radix, d, bits) ==
    LET r == MulAddFrom(v, 1, radix, d)
        w == SubSeq(r, 1, Len(v))
    IN  IF r[Len(r)] # 0 \/ w[Len(w)] >= TopBound(bits)
        THEN [ok |-> FALSE]
        ELSE [ok |-> TRUE, val |-> w]

----------------------------------------------------------------------------
(* Messages of the standard library's parse errors (err.to_string()). *)

MsgInvalidFloat ==
    <<"i","n","v","a","l","i","d"," ","f","l","o","a","t"," ",
      "l","i","t","e","r","a","l">>
MsgFloatEmpty ==
    <<"c","a","n","n","o","t"," ","p","a","r","s","e"," ",
      "f","l","o","a","t"," ","f","r","o","m"," ",
      "e","m","p","t","y"," ","s","t","r","i","n","g">>
MsgIntEmpty ==
    <<"c","a","n","n","o","t"," ","p","a","r","s","e"," ",
      "i","n","t","e","g","e","r"," ","f","r","o","m"," ",
      "e","m","p","t","y"," ","s","t","r","i","n","g">>
MsgInvalidDigit ==
    <<"i","n","v","a","l","i","d"," ","d","i","g","i","t"," ",
      "f","o","u","n","d"," ","i","n"," ","s","t","r","i","n","g">>
MsgPosOverflow ==
    <<"n","u","m","b","e","r"," ","t","o","o"," ","l","a","r","g","e"," ",
      "t","o"," ","f","i","t"," ","i","n"," ",
      "t","a","r","g","e","t"," ","t","y","p","e">>

----------------------------------------------------------------------------
(* Unsigned integer parsing: <uN>::from_str_radix, <uN>::from_str. *)

RECURSIVE ParseDigits(_, _, _, _, _)
\* the digit loop of from_str_radix over src[i..], from the value acc
ParseDigits(src, i, radix, bits, acc) ==
    IF i > Len(src) THEN [ok |-> TRUE, val |-> acc]
    ELSE LET x == to_digit(src[i], radix)
         IN  IF x < 0 THEN [ok |-> FALSE, msg |-> MsgInvalidDigit]
             ELSE LET r == checked_mul_add(acc, radix, x, bits)
                  IN  IF ~r.ok THEN [ok |-> FALSE, msg |-> MsgPosOverflow]
                      ELSE ParseDigits(src, i + 1, radix, bits, r.val)

\* from_str_radix of an unsigned type: an empty string and a lone sign are
\* errors, a leading + is dropped, a leading - is an invalid digit
uint_from_str_radix(src, radix, bits) ==
    IF Len(src) = 0 THEN [ok |-> FALSE, msg |-> MsgIntEmpty]
    ELSE IF Len(src) = 1 /\ src[1] \in {"+", "-"}
         THEN [ok |-> FALSE, msg |-> MsgInvalidDigit]
    ELSE ParseDigits(src, IF src[1] = "+" THEN 2 ELSE 1, radix, bits,
                     UInt(0, bits))

u8_from_str(src) == uint_from_str_radix(src, 10, U8Bits)
u8_from_str_radix(src, radix) == uint_from_str_radix(src, radix, U8Bits)
u32_from_str_radix(src, radix) == uint_from_str_radix(src, radix, U32Bits)
usize_from_str(src) == uint_from_str_radix(src, 10, UsizeBits)

----------------------------------------------------------------------------
(* f32::from_str.  A finite value is kept as its decimal: sign, significant *)
(* digits (no leading or trailing zero) and power of ten; that decimal     *)
(* determines the f32 the standard library rounds it to.                   *)

F32Nan == [class |-> "nan"]
F32Inf(neg) == [class |-> "inf", neg |-> neg]
F32Finite(neg, digits, exp) ==
    [class |-> "finite", neg |-> neg, digits |-> digits, exp |-> exp]

\* f32's PartialEq: NaN equals nothing, -0.0 equals 0.0
f32_eq(a, b) ==
    /\ a.class # "nan"
    /\ b.class # "nan"
    /\ \/ a = b
       \/ a.class = "finite" /\ b.class = "finite"
          /\ a.digits = <<>> /\ b.digits = <<>>

RECURSIVE DigitRunEnd(_, _)
\* index of the last character of the run of decimal digits starting at s[i]
\* (i - 1 when s[i] is no digit)
DigitRunEnd(s, i) ==
    IF i <= Len(s) /\ to_digit(s[i], 10) >= 0 THEN DigitRunEnd(s, i + 1)
    ELSE i - 1

RECURSIVE StripLeadingZeros(_)
StripLeadingZeros(ds) ==
    IF ds # <<>> /\ ds[1] = "0" THEN StripLeadingZeros(Tail(ds)) ELSE ds

RECURSIVE TrailingZeros(_)
TrailingZeros(ds) ==
    IF ds # <<>> /\ ds[Len(ds)] = "0"
    THEN 1 + TrailingZeros(SubSeq(ds, 1, Len(ds) - 1))
    ELSE 0

RECURSIVE ExpValue(_, _, _)
\* the exponent's digits as a number; the library stops accumulating once
\* the number has reached 2^16
ExpValue(ds, i, acc) ==
    IF i > Len(ds) THEN acc
    ELSE ExpValue(ds, i + 1,
                  IF acc < LimbBase THEN 10 * acc + to_digit(ds[i], 10) ELSE acc)

to_ascii_lowercase(c) ==
    CASE c = "A" -> "a" [] c = "F" -> "f" [] c = "I" -> "i" [] c = "N" -> "n"
      [] c = "T" -> "t" [] c = "Y" -> "y" [] OTHER -> c

\* the decimal digits of f32::MAX + half an ulp, 2^128 - 2^103: a decimal
\* of 39 integer digits at or above it rounds to infinity
F32OverflowDigits ==
    <<"3","4","0","2","8","2","3","5","6","7","7","9","7","3","3","6","6","1",
      "6","3","7","5","3","9","3","9","5","4","5","8","1","4","2","5","6","8",
      "4","4","8">>

RECURSIVE DigitsGeq(_, _, _)
\* the digit string a, padded with zeros on the right, is >= b from index i on
DigitsGeq(a, b, i) ==
    IF i > Len(b) THEN TRUE
    ELSE LET x == IF i <= Len(a) THEN to_digit(a[i], 10) ELSE 0
             y == to_digit(b[i], 10)
         IN  IF x > y THEN TRUE
             ELSE IF x < y THEN FALSE
             ELSE DigitsGeq(a, b, i + 1)

\* the value of the decimal with digits ds and power of ten e
F32OfDecimal(neg, ds, e) ==
    LET sig == StripLeadingZeros(ds)
        tz == TrailingZeros(sig)
        digits == SubSeq(sig, 1, Len(sig) - tz)
        exp == e + tz
        mag == Len(digits) + exp   \* 10^(mag-1) <= value < 10^mag
    IN  IF digits = <<>> THEN F32Finite(neg, <<>>, 0)
        ELSE IF mag > 39 \/ (mag = 39 /\ DigitsGeq(digits, F32OverflowDigits, 1))
             THEN F32Inf(neg)
        ELSE F32Finite(neg, digits, exp)

\* parse_number, the exponent: its digits run from s[start] to the end of s
number_exponent(s, negative, start, digits, nfrac) ==
    LET end == DigitRunEnd(s, start)
    IN  IF end < start \/ end # Len(s) THEN [ok |-> FALSE]
        ELSE [ok |-> TRUE, digits |-> digits,
              exp |-> (IF negative THEN 0 - ExpValue(SubSeq(s, start, end), 1, 0)
                       ELSE ExpValue(SubSeq(s, start, end), 1, 0)) - nfrac]

\* parse_number, after the mantissa, which ends at s[p] and has nfrac
\* fractional digits
number_after_mantissa(s, p, digits, nfrac) ==
    IF digits = <<>> THEN [ok |-> FALSE]
    ELSE IF p = Len(s) THEN [ok |-> TRUE, digits |-> digits, exp |-> 0 - nfrac]
    ELSE IF s[p + 1] \notin {"e", "E"} THEN [ok |-> FALSE]
    ELSE IF p + 1 < Len(s) /\ s[p + 2] \in {"+", "-"}
         THEN number_exponent(s, s[p + 2] = "-", p + 3, digits, nfrac)
    ELSE number_exponent(s, FALSE, p + 2, digits, nfrac)

\* parse_number, after the integer digits, which end at s[iEnd]: the
\* fraction, if a point follows
number_after_integer(s, iEnd, fEnd) ==
    IF iEnd < Len(s) /\ s[iEnd + 1] = "."
    THEN number_after_mantissa(s, fEnd,
             SubSeq(s, 1, iEnd) \o SubSeq(s, iEnd + 2, fEnd), fEnd - iEnd - 1)
    ELSE number_after_mantissa(s, iEnd, SubSeq(s, 1, iEnd), 0)

\* dec2flt's parse_number on the unsigned text s: [ok, digits, exp]
parse_number(s) ==
    number_after_integer(s, DigitRunEnd(s, 1),
                         DigitRunEnd(s, DigitRunEnd(s, 1) + 2))

\* dec2flt's parse_inf_nan on the unsigned text s, ASCII case ignored
parse_inf_nan(s) ==
    LET low == [i \in 1..Len(s) |-> to_ascii_lowercase(s[i])]
    IN  IF low = <<"n","a","n">> THEN [ok |-> TRUE, nan |-> TRUE]
        ELSE IF low \in {<<"i","n","f">>, <<"i","n","f","i","n","i","t","y">>}
             THEN [ok |-> TRUE, nan |-> FALSE]
        ELSE [ok |-> FALSE]

f32_from_str(src) ==
    IF Len(src) = 0 THEN [ok |-> FALSE, msg |-> MsgFloatEmpty]
    ELSE LET neg == src[1] = "-"
             s == IF src[1] \in {"+", "-"} THEN Tail(src) ELSE src
             num == parse_number(s)
             special == parse_inf_nan(s)
         IN  IF s = <<>> THEN [ok |-> FALSE, msg |-> MsgInvalidFloat]
             ELSE IF num.ok
                  THEN [ok |-> TRUE, val |-> F32OfDecimal(neg, num.digits, num.exp)]
             ELSE IF special.ok
                  THEN [ok |-> TRUE,
                        val |-> IF special.nan THEN F32Nan ELSE F32Inf(neg)]
             ELSE [ok |-> FALSE, msg |-> MsgInvalidFloat]

----------------------------------------------------------------------------
(* str::split_whitespace, str::contains and the token iterator. *)

RECURSIVE SplitFrom(_, _, _)
\* the tokens of s[i..], cur being the characters of the token under way
SplitFrom(s, i, cur) ==
    IF i > Len(s) THEN (IF cur = <<>> THEN <<>> ELSE <<cur>>)
    ELSE IF is_whitespace(s[i])
         THEN (IF cur = <<>> THEN <<>> ELSE <<cur>>) \o SplitFrom(s, i + 1, <<>>)
    ELSE SplitFrom(s, i + 1, Append(cur, s[i]))

\* s.split_whitespace(), collected: the maximal runs of non-whitespace
split_whitespace(s) == SplitFrom(s, 1, <<>>)

\* s.contains(pat): pat occurs in s as a substring
contains(s, pat) ==
    \E i \in 1..(Len(s) - Len(pat) + 1) : SubSeq(s, i, i + Len(pat) - 1) = pat

\* Iterator::nth(n) on the iterator whose remaining items are rest: skips n
\* items and yields the next; None leaves the iterator exhausted
iter_nth(rest, n) ==
    IF Len(rest) > n
    THEN [some |-> TRUE, item |-> rest[n + 1],
          rest |-> SubSeq(rest, n + 2, Len(rest))]
    ELSE [some |-> FALSE, rest |-> <<>>]

\* Iterator::next()
iter_next(rest) == iter_nth(rest, 0)

\* Iterator::take(n) for n: usize, as the items it will yield
iter_take(rest, n) ==
    IF (\A i \in 2..Len(n) : n[i] = 0) /\ n[1] <= Len(rest)
    THEN SubSeq(rest, 1, n[1])
    ELSE rest

\* str::trim_end_matches(c): every trailing c is removed
RECURSIVE trim_end_matches(_, _)
trim_end_matches(s, c) ==
    IF s # <<>> /\ s[Len(s)] = c
    THEN trim_end_matches(SubSeq(s, 1, Len(s) - 1), c)
    ELSE s

----------------------------------------------------------------------------
(* AscParseError, CanFrame and the Result of from_str. *)

InvalidTimestamp(str) == [kind |-> "InvalidTimestamp", str |-> str]
InvalidBusId(str) == [kind |-> "InvalidBusId", str |-> str]
InvalidFrameId(str) == [kind |-> "InvalidFrameId", str |-> str]
InvalidLengthField(str) == [kind |-> "InvalidLengthField", str |-> str]
InvalidPayload(str) == [kind |-> "InvalidPayload", str |-> str]
InvalidPayloadLength(exp, act) ==
    [kind |-> "InvalidPayloadLength", exp |-> exp, act |-> act]
InvalidFormat(str) == [kind |-> "InvalidFormat", str |-> str]

Ok(frame) == [tag |-> "Ok", frame |-> frame]
Err(e) == [tag |-> "Err", err |-> e]

\* CanFrame::new()
CanFrame_new ==
    [timestamp |-> F32Finite(FALSE, <<>>, 0), bus_id |-> UInt(0, U8Bits),
     id |-> UInt(0, U32Bits), length |-> UInt(0, UsizeBits), payload |-> <<>>]

\* #[derive(PartialEq)] on CanFrame: field by field, timestamp by f32's ==
CanFrame_eq(a, b) ==
    /\ f32_eq(a.timestamp, b.timestamp)
    /\ a.bus_id = b.bus_id
    /\ a.id = b.id
    /\ a.length = b.length
    /\ a.payload = b.payload

\* #[derive(PartialEq)] on AscParseError: same variant, equal fields
AscParseError_eq(a, b) == a = b

\* Result<CanFrame, AscParseError>'s ==
Result_eq(a, b) ==
    /\ a.tag = b.tag
    /\ IF a.tag = "Ok" THEN CanFrame_eq(a.frame, b.frame)
       ELSE AscParseError_eq(a.err, b.err)

----------------------------------------------------------------------------
(* CanFrame::from_str, step by step. *)

CANFD == <<"C", "A", "N", "F", "D">>

\* let can_fd = s.contains("CANFD")
can_fd_of(s) == contains(s, CANFD)

\* tokens.nth(1) or tokens.next() for the bus id
bus_id_token(can_fd, rest) ==
    IF can_fd THEN iter_nth(rest, 1) ELSE iter_next(rest)

\* tokens.nth(1) or tokens.next() for the frame id
id_token(can_fd, rest) ==
    IF can_fd THEN iter_nth(rest, 1) ELSE iter_next(rest)

\* length_token with the classic skip in both dialects
length_token_classic_skip(can_fd, rest) == iter_nth(rest, 2)

\* tokens.nth(3) or tokens.nth(2) for the length
length_token(can_fd, rest) ==
    IF can_fd THEN iter_nth(rest, 3) ELSE iter_nth(rest, 2)

\* u32::from_str_radix(id_token.trim_end_matches('x'), 16)
parse_frame_id(tok) == u32_from_str_radix(trim_end_matches(tok, "x"), 16)

RECURSIVE CollectBytes(_, _, _)
\* .map(|t| u8::from_str_radix(t, 16)).collect::<Result<Vec<u8>, _>>():
\* the bytes in order, or the first error
CollectBytes(toks, i, acc) ==
    IF i > Len(toks) THEN [ok |-> TRUE, val |-> acc]
    ELSE LET b == u8_from_str_radix(toks[i], 16)
         IN  IF ~b.ok THEN [ok |-> FALSE, msg |-> b.msg]
             ELSE CollectBytes(toks, i + 1, Append(acc, b.val))

\* parse_payload dropping the tokens that are no bytes instead of failing
parse_payload_dropping_bad(rest, length) ==
    LET toks == iter_take(rest, length)
        good == SelectSeq(toks, LAMBDA t : u8_from_str_radix(t, 16).ok)
    IN  CollectBytes(good, 1, <<>>)

\* tokens.take(frame.length).map(..).collect()
parse_payload(rest, length) == CollectBytes(iter_take(rest, length), 1, <<>>)

\* payload.len() as usize
usize_of_len(seq) == UInt(Len(seq), UsizeBits)

\* check_payload_length without the comparison
check_payload_length_omitted(frame) == Ok(frame)

\* if frame.payload.len() != frame.length { return Err(..) } Ok(frame)
check_payload_length(frame) ==
    IF usize_of_len(frame.payload) # frame.length
    THEN Err(InvalidPayloadLength(frame.length, usize_of_len(frame.payload)))
    ELSE Ok(frame)

\* the length and payload step
length_step(s, can_fd, rest, frame) ==
    LET t == length_token(can_fd, rest)
    IN  IF ~t.some THEN Err(InvalidFormat(s))
        ELSE LET n == usize_from_str(t.item)
             IN  IF ~n.ok THEN Err(InvalidLengthField(n.msg))
                 ELSE LET p == parse_payload(t.rest, n.val)
                      IN  IF ~p.ok THEN Err(InvalidPayload(p.msg))
                          ELSE check_payload_length(
                                   [frame EXCEPT !.length = n.val,
                                                 !.payload = p.val])

\* the frame id step
id_step(s, can_fd, rest, frame) ==
    LET t == id_token(can_fd, rest)
    IN  IF ~t.some THEN Err(InvalidFormat(s))
        ELSE LET v == parse_frame_id(t.item)
             IN  IF ~v.ok THEN Err(InvalidFrameId(v.msg))
                 ELSE length_step(s, can_fd, t.rest, [frame EXCEPT !.id = v.val])

\* bus_id_step reporting an unparsable token as a format error
bus_id_step_format_error(s, can_fd, rest, frame) ==
    LET t == bus_id_token(can_fd, rest)
    IN  IF ~t.some THEN Err(InvalidFormat(s))
        ELSE LET v == u8_from_str(t.item)
             IN  IF ~v.ok THEN Err(InvalidFormat(s))
                 ELSE id_step(s, can_fd, t.rest, [frame EXCEPT !.bus_id = v.val])

\* the bus id step
bus_id_step(s, can_fd, rest, frame) ==
    LET t == bus_id_token(can_fd, rest)
    IN  IF ~t.some THEN Err(InvalidFormat(s))
        ELSE LET v == u8_from_str(t.item)
             IN  IF ~v.ok THEN Err(InvalidBusId(v.msg))
                 ELSE id_step(s, can_fd, t.rest, [frame EXCEPT !.bus_id = v.val])

\* the timestamp step
timestamp_step(s, can_fd, rest, frame) ==
    LET t == iter_next(rest)
    IN  IF ~t.some THEN Err(InvalidFormat(s))
        ELSE LET v == f32_from_str(t.item)
             IN  IF ~v.ok THEN Err(InvalidTimestamp(v.msg))
                 ELSE bus_id_step(s, can_fd, t.rest,
                                  [frame EXCEPT !.timestamp = v.val])

\* <CanFrame as FromStr>::from_str
from_str(s) ==
    timestamp_step(s, can_fd_of(s), split_whitespace(s), CanFrame_new)

----------------------------------------------------------------------------
(* The lines the decoder is given. *)

RECURSIVE Join(_)
\* the tokens separated by single spaces
Join(toks) ==
    IF toks = <<>> THEN <<>>
    ELSE IF Len(toks) = 1 THEN toks[1]
    ELSE toks[1] \o <<" ">> \o Join(Tail(toks))

\* decimal text of a small number
RECURSIVE DecStr(_)
DecStr(n) == IF n < 10 THEN <<DecDigits[n + 1]>>
             ELSE DecStr(n \div 10) \o <<DecDigits[(n % 10) + 1]>>

TsTokens == {<<"0", ".", "5">>, <<"n", "a", "n">>, <<"0", ".", "9", "x">>}
BusTokens == {<<"3">>, <<"2", "5", "6">>, <<"_">>}
IdTokens == {<<"6", "e">>, <<"6", "e", "x">>, <<"6", "e", "x", "x">>, <<"x">>, <<"F", "F", "F", "F", "F", "F", "F", "F">>, <<"1", "0", "0", "0", "0", "0", "0", "0", "0">>}
LenTokens == {DecStr(n) : n \in 0..MaxPayload} \cup {<<"_">>}
ByteTokens == {<<"c", "c">>, <<"0", "a">>, <<"_", "_">>}
\* the dialect marker, and tokens that only contain it
MarkerTokens == {CANFD, <<"C", "A", "N", "F", "D", "x">>}
TrailerTokens ==
    {<<>>, <<<<"L", "e", "n", "g", "t", "h">>>>, <<CANFD>>,
     <<<<"x", "C", "A", "N", "F", "D">>>>}
Payloads == UNION {[1..n -> ByteTokens] : n \in {MaxPayload}}

\* classic layout: timestamp, bus id, frame id, direction, d, length, payload
ClassicTokens ==
    {<<ts, bus, id, <<"R", "x">>, <<"d">>, len>> \o pl \o tr :
        ts \in TsTokens, bus \in BusTokens, id \in IdTokens,
        len \in LenTokens, pl \in Payloads, tr \in TrailerTokens}

\* CAN-FD layout: timestamp, marker, bus id, direction, frame id, three
\* tokens, length, payload
CanFdTokens ==
    {<<ts, mk, bus, <<"R", "x">>, id, <<"1">>, <<"0">>, <<"6">>, len>> \o pl :
        ts \in TsTokens, mk \in MarkerTokens, bus \in BusTokens,
        id \in IdTokens, len \in LenTokens, pl \in Payloads}

\* every generated token sequence, cut after any number of tokens
GeneratedLines ==
    UNION {{Join(SubSeq(toks, 1, k)) : k \in 0..Len(toks)} :
               toks \in ClassicTokens \cup CanFdTokens}

(* The lines of the crate's tests, and lines for the corners of the parsers. *)

\* "0.962604 3 368 Rx d 4 cc 55 01 00 Length = 0 BitCount = 0 ID = 872"
LineClassic ==
    <<
      "0",".","9","6","2","6","0","4"," ","3"," ","3","6","8"," ","R","x",
        " ","d"," ","4"," ","c","c"," ","5","5"," ","0","1"," ","0","0"," ",
        "L","e","n","g","t","h"," ","="," ","0"," ","B","i","t","C","o","u",
        "n","t"," ","="," ","0"," ","I","D"," ","="," ","8","7","2"
    >>

\* "7.392600 CANFD 1 Rx 6e   1 0 6 6 ec 0a 22 ff ff f1 0 0 3000 0 0 0 0 0"
LineCanFd ==
    <<
      "7",".","3","9","2","6","0","0"," ","C","A","N","F","D"," ","1"," ",
        "R","x"," ","6","e"," "," "," ","1"," ","0"," ","6"," ","6"," ","e",
        "c"," ","0","a"," ","2","2"," ","f","f"," ","f","f"," ","f","1"," ",
        "0"," ","0"," ","3","0","0","0"," ","0"," ","0"," ","0"," ","0"," ",
        "0"
    >>

\* "0.962892 3 1f78c410x Rx d 8 02 00 00 00 24 00 70 03 Length = 0 BitCount = 0 ID = 528008208x"
LineExtended ==
    <<
      "0",".","9","6","2","8","9","2"," ","3"," ","1","f","7","8","c","4",
        "1","0","x"," ","R","x"," ","d"," ","8"," ","0","2"," ","0","0"," ",
        "0","0"," ","0","0"," ","2","4"," ","0","0"," ","7","0"," ","0","3",
        " ","L","e","n","g","t","h"," ","="," ","0"," ","B","i","t","C","o",
        "u","n","t"," ","="," ","0"," ","I","D"," ","="," ","5","2","8","0",
        "0","8","2","0","8","x"
    >>

\* "7.392600 CANFD 1 Rx 12b80210x 1 0 6 6 ec 0a 22 ff ff f1 0 0 3000 0 0 0 0 0"
LineCanFdExtended ==
    <<
      "7",".","3","9","2","6","0","0"," ","C","A","N","F","D"," ","1"," ",
        "R","x"," ","1","2","b","8","0","2","1","0","x"," ","1"," ","0"," ",
        "6"," ","6"," ","e","c"," ","0","a"," ","2","2"," ","f","f"," ","f",
        "f"," ","f","1"," ","0"," ","0"," ","3","0","0","0"," ","0"," ","0",
        " ","0"," ","0"," ","0"
    >>

\* "0.9xxxxx 3 368 Rx d 4 cc 55 01 00 Length = 0 BitCount = 0 ID = 872"
LineBadTimestamp ==
    <<
      "0",".","9","x","x","x","x","x"," ","3"," ","3","6","8"," ","R","x",
        " ","d"," ","4"," ","c","c"," ","5","5"," ","0","1"," ","0","0"," ",
        "L","e","n","g","t","h"," ","="," ","0"," ","B","i","t","C","o","u",
        "n","t"," ","="," ","0"," ","I","D"," ","="," ","8","7","2"
    >>

\* "0.962604 3 368 Rx d 4 cc 55 __ 00 Length = 0 BitCount = 0 ID = 872"
LineBadPayload ==
    <<
      "0",".","9","6","2","6","0","4"," ","3"," ","3","6","8"," ","R","x",
        " ","d"," ","4"," ","c","c"," ","5","5"," ","_","_"," ","0","0"," ",
        "L","e","n","g","t","h"," ","="," ","0"," ","B","i","t","C","o","u",
        "n","t"," ","="," ","0"," ","I","D"," ","="," ","8","7","2"
    >>

\* "0.962604 3 368 Rx d 4 cc"
LineShortPayload ==
    <<
      "0",".","9","6","2","6","0","4"," ","3"," ","3","6","8"," ","R","x",
        " ","d"," ","4"," ","c","c"
    >>

\* "inf 1 2 Rx d 0"
LineInf ==
    <<
      "i","n","f"," ","1"," ","2"," ","R","x"," ","d"," ","0"
    >>

\* "-1e39 1 2 Rx d 0"
LineHugeTimestamp ==
    <<
      "-","1","e","3","9"," ","1"," ","2"," ","R","x"," ","d"," ","0"
    >>

\* "-0.0 1 2 Rx d 0"
LineNegZero ==
    <<
      "-","0",".","0"," ","1"," ","2"," ","R","x"," ","d"," ","0"
    >>

\* "+.5e-1 +3 +6E Rx d +1 +c"
LineSigns ==
    <<
      "+",".","5","e","-","1"," ","+","3"," ","+","6","E"," ","R","x"," ",
        "d"," ","+","1"," ","+","c"
    >>

\* " \t0.5 3\t6e  Rx d 1 cc \t"
LinePadded ==
    <<
      " ","\t","0",".","5"," ","3","\t","6","e"," "," ","R","x"," ","d"," ",
        "1"," ","c","c"," ","\t"
    >>

\* "0.5 3 6e Rx d 4294967296 cc"
LineHugeLength ==
    <<
      "0",".","5"," ","3"," ","6","e"," ","R","x"," ","d"," ","4","2","9",
        "4","9","6","7","2","9","6"," ","c","c"
    >>

\* "0.5 3 6e Rx d 18446744073709551616 cc"
LineLengthOverflow ==
    <<
      "0",".","5"," ","3"," ","6","e"," ","R","x"," ","d"," ","1","8","4",
        "4","6","7","4","4","0","7","3","7","0","9","5","5","1","6","1","6",
        " ","c","c"
    >>

\* "0.5 3 6e Rx d 1 100"
LineByteOverflow ==
    <<
      "0",".","5"," ","3"," ","6","e"," ","R","x"," ","d"," ","1"," ","1",
        "0","0"
    >>

ExtraLines ==
    {LineClassic, LineCanFd, LineExtended, LineCanFdExtended,
     LineBadTimestamp, LineBadPayload, LineShortPayload, LineInf,
     LineHugeTimestamp, LineNegZero, LineSigns, LinePadded, LineHugeLength,
     LineLengthOverflow, LineByteOverflow}

Lines == GeneratedLines \cup ExtraLines

----------------------------------------------------------------------------
(* AscParser. *)

\* an item of Lines<BufReader<R>>: Ok(line) or Err(io::Error)
ReadOk(s) == [read |-> "Ok", line |-> s]
ReadErr == [read |-> "Err"]

Some(frame) == [some |-> TRUE, frame |-> frame]
None == [some |-> FALSE]

SourceItems ==
    {ReadOk(Join(<<<<"0", ".", "5">>, <<"3">>, <<"6", "e">>, <<"R", "x">>, <<"d">>, <<"1">>, <<"c", "c">>>>)),
     ReadOk(Join(<<<<"n", "a", "n">>, CANFD, <<"1">>, <<"R", "x">>, <<"6", "e", "x">>, <<"1">>, <<"0">>, <<"6">>, <<"1">>, <<"0", "a">>>>)),
     ReadOk(<<>>),
     ReadOk(Join(<<<<"0", ".", "5">>, <<"3">>, <<"6", "e">>, <<"R", "x">>, <<"d">>, <<"1">>, <<"_", "_">>>>)),
     ReadErr}

Sources == UNION {[1..n -> SourceItems] : n \in 0..MaxLines}

RECURSIVE next(_, _)

\* on_decode_error ending the stream at the line that failed to decode
on_decode_error_ends_stream(src, cur) == [item |-> None, cursor |-> cur]

\* Err(_) => return self.next()
on_decode_error(src, cur) == next(src, cur)

\* AscParser::next() on the parser whose lines iterator has yielded cur
\* items of src: the Option returned and the items yielded afterwards
next(src, cur) ==
    IF cur < Len(src) /\ src[cur + 1].read = "Ok"
    THEN LET r == from_str(src[cur + 1].line)
         IN  IF r.tag = "Ok" THEN [item |-> Some(r.frame), cursor |-> cur + 1]
             ELSE on_decode_error(src, cur + 1)
    ELSE [item |-> None, cursor |-> IF cur < Len(src) THEN cur + 1 ELSE cur]

----------------------------------------------------------------------------
(* The state machines. *)

NotCalled == [tag |-> "NotCalled"]

\* AscParser::new(input) over any source; no direct decoder call
Init ==
    /\ source \in Sources
    /\ cursor = 0
    /\ out = <<>>
    /\ line = <<>>
    /\ result = NotCalled
    /\ result2 = NotCalled

\* one call of AscParser::next()
CallNext ==
    /\ Len(out) < MaxCalls
    /\ LET r == next(source, cursor)
       IN  /\ out' = Append(out, r)
           /\ cursor' = r.cursor
    /\ UNCHANGED <<source, line, result, result2>>

Next == CallNext

Spec == Init /\ [][Next]_vars

\* a direct caller holding any line; no parser
InitDecode ==
    /\ line \in Lines
    /\ result = NotCalled
    /\ result2 = NotCalled
    /\ source = <<>>
    /\ cursor = 0
    /\ out = <<>>

\* CanFrame::from_str(&line)
Decode ==
    /\ result = NotCalled
    /\ result' = from_str(line)
    /\ UNCHANGED <<line, result2, source, cursor, out>>

\* CanFrame::from_str(&line), a second time
DecodeAgain ==
    /\ result # NotCalled
    /\ result2 = NotCalled
    /\ result2' = from_str(line)
    /\ UNCHANGED <<line, result, source, cursor, out>>

NextDecode == Decode \/ DecodeAgain

SpecDecode == InitDecode /\ [][NextDecode]_vars

----------------------------------------------------------------------------
(* What the properties speak of: the tokens of the line by their position. *)

\* the line's whitespace-separated tokens; token k of the text is Toks[k + 1]
Toks == split_whitespace(line)
\* the dialect the decoder decodes the line in
IsFd == can_fd_of(line)
\* positions (from 1) of the timestamp, bus id, frame id and length tokens:
\* tokens 0, 2, 4, 8 of a CAN-FD line and tokens 0, 1, 2, 5 of a classic one
FieldAt(fd) == IF fd THEN <<1, 3, 5, 9>> ELSE <<1, 2, 3, 6>>
FieldKinds ==
    <<"InvalidTimestamp", "InvalidBusId", "InvalidFrameId", "InvalidLengthField">>

\* the value the field's parser gives the token
FieldParse(i, tok) ==
    CASE i = 1 -> f32_from_str(tok)
      [] i = 2 -> u8_from_str(tok)
      [] i = 3 -> parse_frame_id(tok)
      [] i = 4 -> usize_from_str(tok)

RECURSIVE FirstFailure(_, _, _)
\* the error kind of the first of the steps i..4 that fails, "none" if none
FirstFailure(toks, at, i) ==
    IF i > 4 THEN "none"
    ELSE IF Len(toks) < at[i] THEN "InvalidFormat"
    ELSE IF ~FieldParse(i, toks[at[i]]).ok THEN FieldKinds[i]
    ELSE FirstFailure(toks, at, i + 1)

\* the four field tokens are present and valid
FieldsValid == FirstFailure(Toks, FieldAt(IsFd), 1) = "none"
FieldValue(i) == FieldParse(i, Toks[FieldAt(IsFd)[i]]).val

\* the declared length as a number, when it is below 2^16
SmallLength(n) == IF \A i \in 2..Len(n) : n[i] = 0 THEN n[1] ELSE LimbBase
\* position of the first payload token
PayloadAt == FieldAt(IsFd)[4] + 1
\* how many tokens follow the length token
Remaining == Len(Toks) - FieldAt(IsFd)[4]
Min(a, b) == IF a < b THEN a ELSE b
IsByte(tok) == u8_from_str_radix(tok, 16).ok
ByteOf(tok) == u8_from_str_radix(tok, 16).val

Called == result # NotCalled
IsOk == result.tag = "Ok"
IsErr(kind) == result.tag = "Err" /\ result.err.kind = kind

----------------------------------------------------------------------------
(* Properties of AscParser (specification Spec). *)

\* the frames of the lines of src that from_str accepts, in source order
RECURSIVE AcceptedFrom(_, _)
AcceptedFrom(src, i) ==
    IF i > Len(src) THEN <<>>
    ELSE IF src[i].read = "Ok" /\ from_str(src[i].line).tag = "Ok"
         THEN <<from_str(src[i].line).frame>> \o AcceptedFrom(src, i + 1)
    ELSE AcceptedFrom(src, i + 1)

\* the calls of next() made before the first that returned None
CallsToFirstNone ==
    {i \in DOMAIN out : \A j \in 1..i : out[j].item.some}
\* the frames returned up to the first None
Yielded == [i \in 1..Cardinality(CallsToFirstNone) |-> out[i].item.frame]
ReturnedNone == \E i \in DOMAIN out : ~out[i].item.some
EveryItemRead == \A i \in DOMAIN source : source[i].read = "Ok"

\* C1: over a source of lines, the frames next() returns up to the first
\* None are the frames of the lines from_str accepts, in source order, and
\* never more than there are lines: at any moment they are a prefix of that
\* sequence, and all of it once None has been returned.
C1_YieldsAcceptedLinesInOrder ==
    LET acc == AcceptedFrom(source, 1)
    IN  /\ Len(Yielded) <= Len(source)
        /\ Len(Yielded) <= Len(acc)
        /\ Yielded = SubSeq(acc, 1, Len(Yielded))
        /\ (EveryItemRead /\ ReturnedNone) => Yielded = acc

\* a source of three lines, one of them rejected and skipped between two
\* accepted ones, read to its end
C1_Witness ==
    /\ EveryItemRead
    /\ Len(source) = 3
    /\ from_str(source[2].line).tag = "Err"
    /\ ReturnedNone
    /\ Len(Yielded) = 2

\* C2: next() returns None only when every item of the source has been
\* taken, and after a None every later call returns None.
C2_NoneOnlyAtEndAndForever ==
    \A i \in DOMAIN out :
        ~out[i].item.some =>
            /\ out[i].cursor = Len(source)
            /\ \A j \in DOMAIN out : j > i => ~out[j].item.some

----------------------------------------------------------------------------
(* Properties of CanFrame::from_str (specification SpecDecode). *)

\* C3: a frame returned as Ok has as many payload bytes as its length says.
C3_PayloadLenIsLength ==
    (Called /\ IsOk) =>
        usize_of_len(result.frame.payload) = result.frame.length

\* a CAN-FD line decoded to a frame of two bytes
C3_Witness ==
    /\ Called /\ IsOk /\ IsFd
    /\ Len(result.frame.payload) = 2

\* C4: the error is that of the first failing step in the order timestamp,
\* bus id, frame id, length: InvalidFormat where the step's token is absent,
\* the field's own kind where it is present and not valid; when no step
\* fails the result is none of these kinds.
C4_FirstFailingStepDecides ==
    Called =>
        LET k == FirstFailure(Toks, FieldAt(IsFd), 1)
        IN  IF k # "none" THEN IsErr(k)
            ELSE IsOk \/ IsErr("InvalidPayload") \/ IsErr("InvalidPayloadLength")

\* an invalid bus id reported although the frame id token is invalid too
C4_Witness ==
    /\ Called /\ IsErr("InvalidBusId")
    /\ Len(Toks) >= FieldAt(IsFd)[3]
    /\ ~FieldParse(3, Toks[FieldAt(IsFd)[3]]).ok

\* the payload token at which parsing stopped, when there is one
FirstBadByte ==
    LET n == Min(SmallLength(FieldValue(4)), Remaining)
        bad == {j \in 1..n : ~IsByte(Toks[PayloadAt + j - 1])}
    IN  Toks[PayloadAt + (CHOOSE j \in bad : \A h \in bad : j <= h) - 1]

\* C5: every error carries the offending input: the raw token for the five
\* token errors, the raw line for InvalidFormat, the declared length and the
\* number of bytes parsed for InvalidPayloadLength.
C5_ErrorCarriesOffendingInput ==
    (Called /\ result.tag = "Err") =>
        LET e == result.err
        IN  CASE e.kind = "InvalidTimestamp" -> e.str = Toks[FieldAt(IsFd)[1]]
              [] e.kind = "InvalidBusId" -> e.str = Toks[FieldAt(IsFd)[2]]
              [] e.kind = "InvalidFrameId" -> e.str = Toks[FieldAt(IsFd)[3]]
              [] e.kind = "InvalidLengthField" -> e.str = Toks[FieldAt(IsFd)[4]]
              [] e.kind = "InvalidPayload" -> e.str = FirstBadByte
              [] e.kind = "InvalidFormat" -> e.str = line
              [] e.kind = "InvalidPayloadLength" ->
                    /\ e.exp = FieldValue(4)
                    /\ e.act = usize_of_len(
                           [j \in 1..Min(SmallLength(e.exp), Remaining) |-> j])

\* C6: two calls of from_str on the same line return results that are
\* equal under the derived PartialEq.
C6_TwoCallsCompareEqual ==
    (Called /\ result2 # NotCalled) => Result_eq(result, result2)

\* the frame read by position: fields from the field tokens, payload from
\* the tokens that follow the length token
FrameByPosition ==
    [timestamp |-> FieldValue(1), bus_id |-> FieldValue(2),
     id |-> FieldValue(3), length |-> FieldValue(4),
     payload |-> [j \in 1..SmallLength(FieldValue(4)) |->
                      ByteOf(Toks[PayloadAt + j - 1])]]

\* the field tokens and the payload tokens are all present and valid
ValidByPosition ==
    /\ FieldsValid
    /\ SmallLength(FieldValue(4)) <= Remaining
    /\ \A j \in 1..SmallLength(FieldValue(4)) : IsByte(Toks[PayloadAt + j - 1])

\* C7: the fields are read at positions fixed by the dialect: tokens 0, 1,
\* 2, 5 and the payload from token 6 on in a classic line, tokens 0, 2, 4, 8
\* and the payload from token 9 on in a CAN-FD line.  A frame is returned
\* exactly when those tokens are present and valid, whatever the other
\* tokens are, and it holds their values.
C7_FieldsReadByPosition ==
    Called =>
        /\ IsOk <=> ValidByPosition
        /\ IsOk => result.frame = FrameByPosition

\* a CAN-FD line decoded to a frame, with tokens after its payload
C7_Witness ==
    /\ Called /\ IsOk /\ IsFd
    /\ Len(result.frame.payload) >= 1
    /\ Len(Toks) > FieldAt(TRUE)[4] + Len(result.frame.payload)

\* C8: the line is decoded with the CAN-FD positions exactly when one of
\* its tokens is the literal CANFD.
C8_FdIffMarkerToken ==
    Called =>
        result = timestamp_step(line, \E i \in DOMAIN Toks : Toks[i] = CANFD,
                                Toks, CanFrame_new)

\* the token with one trailing x removed, if it has one
StripOneX(tok) ==
    IF tok # <<>> /\ tok[Len(tok)] = "x" THEN SubSeq(tok, 1, Len(tok) - 1)
    ELSE tok

\* C9: when the frame id step is reached, the token less one trailing x is
\* parsed in base 16 as a u32: a valid remainder is the id, any other
\* remainder gives InvalidFrameId.
C9_OneTrailingXStripped ==
    (Called /\ FirstFailure(Toks, FieldAt(IsFd), 1) \notin
                   {"InvalidFormat", "InvalidTimestamp", "InvalidBusId"}) =>
        LET v == u32_from_str_radix(StripOneX(Toks[FieldAt(IsFd)[3]]), 16)
        IN  IF v.ok THEN ~IsErr("InvalidFrameId") /\ (IsOk => result.frame.id = v.val)
            ELSE IsErr("InvalidFrameId")

\* C10: after a valid length token of value n the next min(n, remaining)
\* tokens are examined and no others: a token among them that is no base-16
\* byte gives InvalidPayload; otherwise fewer than n remaining tokens give
\* InvalidPayloadLength with expected n and actual their number; otherwise
\* the payload is the n bytes in token order.
C10_PayloadOfDeclaredLength ==
    (Called /\ FieldsValid) =>
        LET n == SmallLength(FieldValue(4))
            k == Min(n, Remaining)
        IN  IF \E j \in 1..k : ~IsByte(Toks[PayloadAt + j - 1])
            THEN IsErr("InvalidPayload")
            ELSE IF k < n
                 THEN /\ IsErr("InvalidPayloadLength")
                      /\ result.err.exp = FieldValue(4)
                      /\ result.err.act = UInt(k, UsizeBits)
            ELSE /\ IsOk
                 /\ result.frame.payload =
                        [j \in 1..n |-> ByteOf(Toks[PayloadAt + j - 1])]

\* a declared length of two with one byte token left
C10_Witness ==
    /\ Called /\ IsErr("InvalidPayloadLength")
    /\ result.err.exp = UInt(2, UsizeBits)
    /\ result.err.act = UInt(1, UsizeBits)

====
